---- MODULE Spec2Model ----
(***************************************************************************)
(* WizFlow: the code generator (wizflow/core/code_generator.py), the       *)
(* program it emits (run_workflow and the trigger harnesses) and the       *)
(* schedule trigger plugin (wizflow/plugins/schedule_trigger.py).          *)
(*                                                                         *)
(* Spec       : a workflow document is compiled by generate_code and the   *)
(*              emitted program is executed statement by statement.        *)
(* SpecSched  : the two schedule loops (emitted harness, plugin) against   *)
(*              a discrete clock.                                          *)
(* SpecSchedFair : SpecSched with the plugin's loop weakly fair.            *)
(* SpecTrig   : the file and webhook listeners (emitted harnesses and      *)
(*              plugins): handlers, replies, the watch / socket resource.  *)
(* SpecGen    : repeated generation of one document: the allowed-module    *)
(*              list, the import lines and the function definitions.       *)
(* SpecGuard  : the import guard of the emitted program: direct calls and  *)
(*              the program's own import block run under it.               *)
(* SpecResolve: ActionPlugin._resolve_template and the plugins'            *)
(*              get_function_call on config strings, as token sequences.   *)
(* SpecFlow   : manual runs of documents whose actions declare             *)
(*              `condition` and `loop`.                                    *)
(***************************************************************************)
EXTENDS Integers, Sequences, FiniteSets, TLC

\* ------------------------------------------------------------------ bounds
MaxActions == 2      \* longest actions list of a document
MaxCount == 2        \* largest retry count a document carries
MaxRuns == 2         \* invocations of run_workflow by a looping harness

\* ------------------------------------------------------- program constants
DefaultRetryCount == 3
DefaultRetryDelay == 5
DefaultPort == 8080

Missing == "<missing>"     \* a key that the JSON mapping does not carry
Null == "<null>"           \* JSON null

\* identifiers under which PluginManager._load_plugins registered an action
action_plugins == {"api_call", "file_process", "log_message", "send_email", "send_whatsapp", "web_scrape"}

\* PluginManager.get_action_plugin: the plugin, or absent (FALSE)
get_action_plugin(name) == name \in action_plugins

\* ------------------------------------------------------ workflow documents
ActionTypes == {"log_message", "api_call", "bogus_action"}
Delays == {10}

\* on_error of an action: kind "absent" (no on_error, or no retry key),
\* "empty" (retry: {}), "dict" (a non-empty retry mapping)
NoRetry == [kind |-> "absent", hasCount |-> FALSE, count |-> 0, hasDelay |-> FALSE, delay |-> 0]
EmptyRetry == [kind |-> "empty", hasCount |-> FALSE, count |-> 0, hasDelay |-> FALSE, delay |-> 0]
RetryDicts ==
    { [kind |-> "dict", hasCount |-> TRUE, count |-> c, hasDelay |-> TRUE, delay |-> d] : c \in (-1)..MaxCount, d \in Delays }
    \cup { [kind |-> "dict", hasCount |-> FALSE, count |-> 0, hasDelay |-> FALSE, delay |-> 0] }
RetryConfigs == {NoRetry, EmptyRetry} \cup RetryDicts

\* the actions a document is built from: every on_error shape on a registered
\* plugin, a second registered plugin, and an unregistered type
Actions ==
    [type : {"log_message"}, retry : RetryConfigs]
    \cup [type : {"api_call", "bogus_action"}, retry : {NoRetry}]

ActionLists(maxlen) == UNION { [1..n -> Actions] : n \in 0..maxlen }

NoTrigger == [has |-> FALSE, type |-> Missing, port |-> Missing]
Triggers ==
    {NoTrigger}
    \cup { [has |-> TRUE, type |-> t, port |-> Missing] : t \in {Missing, Null, "manual", "file", "schedule", "webhook", "cron_job"} }
    \cup { [has |-> TRUE, type |-> "webhook", port |-> p] : p \in {"9000", "http"} }

ManualTrigger == [has |-> TRUE, type |-> "manual", port |-> Missing]

\* the documents: every trigger shape with the shorter action lists, and the
\* manual trigger with every action list
Workflows ==
    [trigger : Triggers, actions : ActionLists(MaxActions - 1)]
    \cup [trigger : {ManualTrigger}, actions : ActionLists(MaxActions)]

\* ------------------------------------------------------------- generation
\* one emitted step of run_workflow's body
SkipStep(t) == [kind |-> "skip", type |-> t, count |-> 0, last |-> 0, delay |-> 0]
BareStep(t) == [kind |-> "bare", type |-> t, count |-> 0, last |-> 0, delay |-> 0]
RetryStep(t, c, d) == [kind |-> "retry", type |-> t, count |-> c, last |-> c - 1, delay |-> d]

\* retry_config.get('count', 3) and retry_config.get('delay_seconds', 5)
retry_count(r) == IF r.hasCount THEN r.count ELSE DefaultRetryCount
retry_delay(r) == IF r.hasDelay THEN r.delay ELSE DefaultRetryDelay

\* `if retry_config and isinstance(retry_config, dict)`: an empty mapping is falsy
HasRetryWrapper(a) == a.retry.kind = "dict"

\* faulty variant: no registry lookup, a call is emitted for every type
EmitAction_NoLookup(a) ==
    IF HasRetryWrapper(a) THEN RetryStep(a.type, retry_count(a.retry), retry_delay(a.retry))
    ELSE BareStep(a.type)

\* the code emitted for one action of the document
EmitAction(a) ==
    IF ~get_action_plugin(a.type) THEN SkipStep(a.type)
    ELSE IF HasRetryWrapper(a) THEN RetryStep(a.type, retry_count(a.retry), retry_delay(a.retry))
    ELSE BareStep(a.type)

_generate_action_calls(workflow) == [i \in 1..Len(workflow.actions) |-> EmitAction(workflow.actions[i])]

\* workflow.get("trigger", {}).get("type", "manual")
trigger_type(workflow) ==
    IF ~workflow.trigger.has \/ workflow.trigger.type = Missing THEN "manual" ELSE workflow.trigger.type

\* int(workflow.get("trigger", {}).get("port", 8080)): -1 stands for ValueError
NumericText == {"9000"}
IntOfText(p) == IF p = "9000" THEN 9000 ELSE -1
int_port(p) == IF p = Missing THEN DefaultPort ELSE IF p \in NumericText THEN IntOfText(p) ELSE -1

\* the entry-point harness selected by _generate_main_execution
HarnessKinds == {"manual", "file", "schedule", "webhook", "unknown"}
HarnessOf(tt) == IF tt \in {"manual", "file", "schedule", "webhook"} THEN tt ELSE "unknown"

_generate_main_execution(workflow) ==
    LET tt == trigger_type(workflow)
    IN  [kind |-> HarnessOf(tt),
         port |-> IF tt = "webhook" THEN int_port(workflow.trigger.port) ELSE 0,
         raised |-> tt = "webhook" /\ int_port(workflow.trigger.port) < 0]

NoProgram == [ok |-> FALSE, steps |-> << >>, harness |-> [kind |-> "unknown", port |-> 0, raised |-> FALSE]]

\* generate_code: the emitted program, or ok = FALSE when a section raised
generate_code(workflow) ==
    LET h == _generate_main_execution(workflow)
    IN  IF h.raised THEN NoProgram
        ELSE [ok |-> TRUE, steps |-> _generate_action_calls(workflow), harness |-> h]

\* ------------------------------------------------------ the emitted program
Keys == {"x", "y", "event_type", "src_path", "data"}
Absent == "<absent>"
EmptyMapping == [k \in Keys |-> Absent]

\* what the evaluation of an action's call expression can yield
ReturnsNothing == [isDict |-> FALSE, m |-> EmptyMapping]
ReturnsMapping(m) == [isDict |-> TRUE, m |-> m]
Returns ==
    {ReturnsNothing,
     ReturnsMapping([EmptyMapping EXCEPT !["x"] = "1"]),
     ReturnsMapping([EmptyMapping EXCEPT !["x"] = "2", !["y"] = "1"])}

\* faulty variant: the returned mapping replaces the variable mapping
update_Replaces(vars, m) == m

\* dict.update
update(vars, m) == [k \in Keys |-> IF m[k] # Absent THEN m[k] ELSE vars[k]]

\* `if isinstance(new_variables, dict): variables.update(new_variables)`
Merge(vars, ret) == IF ret.isDict THEN update(vars, ret.m) ELSE vars

\* trigger payloads handed to run_workflow
NoPayload == [none |-> TRUE, m |-> EmptyMapping]
Payload(m) == [none |-> FALSE, m |-> m]

VARIABLES
    workflow,        \* the workflow document
    program,         \* the text emitted by generate_code, as its steps and harness
    pc,              \* position of the process: document, gen_error, main, run, waiting, exited
    exit_code,       \* status passed to sys.exit, -1 while the process lives
    rpc,             \* position inside run_workflow: idle, step, call, loop, attempt, afterloop, returned
    idx,             \* number of the action the run is at (1-based)
    attempt,         \* loop variable of the retry wrapper
    action_success,  \* flag of the retry wrapper
    variables,       \* the variable mapping of the current invocation
    credentials,     \* "loaded" or "empty"
    success,         \* value returned by the last run_workflow invocation
    trigger_data,    \* argument of the last run_workflow invocation
    invocations,     \* number of run_workflow invocations so far
    error_logged,    \* the harness logged "Unknown trigger type"
    log              \* what the current invocation did, in order

\* the schedule loops (emitted schedule harness, ScheduleTriggerPlugin.start)
VARIABLES
    impl,            \* which loop runs: "harness" or "plugin"
    schedule_ok,     \* croniter accepts the cron expression
    now,             \* the wall clock, in seconds
    base_time,       \* the loop's base_time
    next_run_time,   \* the loop's next_run_time
    spc,             \* position in the loop
    stopped,         \* ScheduleTriggerPlugin._stopped
    fires,           \* the invocations so far: scheduled fire time and start time
    errors           \* passes through the loop's except branch

\* the listeners (emitted file and webhook harnesses, FileTriggerPlugin, WebhookTriggerPlugin)
VARIABLES
    listener,        \* which listener runs: its trigger and whether harness or plugin
    resource,        \* the observer / server socket: "none", "held" or "released"
    tpc,             \* position of the listener
    exit_path,       \* how the listener stopped
    request,         \* the POST or file-system event being handled
    hpc,             \* position in the handler
    replies,         \* responses sent for the request being handled
    calls,           \* calls of the workflow function made for the request being handled
    served           \* the requests handled so far, with their replies and calls

\* repeated generation from one document
VARIABLES
    outputs          \* the texts generate_code has returned for the document so far

\* the import guard of the emitted program
VARIABLES
    attempts,        \* the calls of _secure_import so far, each with its outcome
    import_block     \* the statements of the emitted import block executed so far, each with its outcome

\* template resolution
VARIABLES
    resolved,        \* the config value handed to _resolve_template with the expression returned, once resolved
    evaluated,       \* the value of that expression under one content of the shared mapping, once evaluated
    call             \* the argument get_function_call emitted for one config value of one plugin, once emitted

vars == <<workflow, program, pc, exit_code, rpc, idx, attempt, action_success, variables,
          credentials, success, trigger_data, invocations, error_logged, log,
          impl, schedule_ok, now, base_time, next_run_time, spc, stopped, fires, errors,
          listener, resource, tpc, exit_path, request, hpc, replies, calls, served,
          outputs, attempts, import_block, resolved, evaluated, call>>

tplvars == <<resolved, evaluated, call>>
genvars == <<outputs, attempts, import_block, tplvars>>

trigvars == <<listener, resource, tpc, exit_path, request, hpc, replies, calls, served>>

schedvars == <<impl, schedule_ok, now, base_time, next_run_time, spc, stopped, fires, errors>>

mainvars == <<workflow, program, pc, exit_code, rpc, idx, attempt, action_success, variables,
              credentials, success, trigger_data, invocations, error_logged, log>>

outside_main == <<impl, schedule_ok, now, base_time, next_run_time, spc, stopped, fires, errors, trigvars, genvars>>

runvars == <<rpc, idx, attempt, action_success, variables, credentials, success, trigger_data, invocations, log>>

outside_sched == <<mainvars, trigvars, genvars>>

outside_trig == <<mainvars, schedvars, genvars>>

outside_gen == <<mainvars, schedvars, trigvars, attempts, import_block, tplvars>>

outside_guard == <<mainvars, schedvars, trigvars, outputs, tplvars>>

outside_tpl == <<mainvars, schedvars, trigvars, outputs, attempts, import_block>>

Ev(e, i, d) == [ev |-> e, idx |-> i, d |-> d]

\* no schedule loop is running
NoLoop ==
    /\ impl = "harness"
    /\ schedule_ok = TRUE
    /\ now = 0
    /\ base_time = 0
    /\ next_run_time = 0
    /\ spc = "off"
    /\ stopped = FALSE
    /\ fires = << >>
    /\ errors = 0

NoRequest == [kind |-> "none"]

\* no listener is running
NoListener ==
    /\ listener = [kind |-> "none", impl |-> "none"]
    /\ resource = "none"
    /\ tpc = "off"
    /\ exit_path = "none"
    /\ request = NoRequest
    /\ hpc = "idle"
    /\ replies = << >>
    /\ calls = << >>
    /\ served = << >>
    /\ outputs = << >>
    /\ attempts = << >>
    /\ import_block = << >>
    /\ resolved = << >>
    /\ evaluated = << >>
    /\ call = << >>

Init ==
    /\ workflow \in Workflows
    /\ program = NoProgram
    /\ pc = "document"
    /\ exit_code = -1
    /\ rpc = "idle"
    /\ idx = 0
    /\ attempt = 0
    /\ action_success = FALSE
    /\ variables = EmptyMapping
    /\ credentials = "empty"
    /\ success = FALSE
    /\ trigger_data = NoPayload
    /\ invocations = 0
    /\ error_logged = FALSE
    /\ log = << >>
    /\ NoLoop
    /\ NoListener

\* CodeGenerator.generate_code(workflow)
GenerateCode ==
    /\ pc = "document"
    /\ program' = generate_code(workflow)
    /\ pc' = IF generate_code(workflow).ok THEN "main" ELSE "gen_error"
    /\ UNCHANGED <<workflow, exit_code, error_logged>>
    /\ UNCHANGED runvars
    /\ UNCHANGED outside_main

\* faulty variant: the variable mapping outlives the invocation and is only updated by the payload
run_workflow_SharedMapping(data, creds) ==
    /\ variables' = IF data.none THEN variables ELSE update(variables, data.m)
    /\ credentials' = creds
    /\ trigger_data' = data
    /\ invocations' = invocations + 1
    /\ rpc' = "step"
    /\ idx' = 1
    /\ attempt' = 0
    /\ action_success' = FALSE
    /\ log' = << >>
    /\ UNCHANGED success

\* faulty variant: a failed credential load ends the run before the first action
run_workflow_AbortsOnLoadFailure(data, creds) ==
    /\ variables' = IF data.none THEN EmptyMapping ELSE data.m
    /\ credentials' = creds
    /\ trigger_data' = data
    /\ invocations' = invocations + 1
    /\ rpc' = IF creds = "empty" THEN "returned" ELSE "step"
    /\ idx' = 1
    /\ attempt' = 0
    /\ action_success' = FALSE
    /\ log' = << >>
    /\ success' = (creds # "empty" /\ success)

\* entry of run_workflow(trigger_data): seed the mapping, load the credentials
run_workflow(data, creds) ==
    /\ variables' = IF data.none THEN EmptyMapping ELSE data.m
    /\ credentials' = creds
    /\ trigger_data' = data
    /\ invocations' = invocations + 1
    /\ rpc' = "step"
    /\ idx' = 1
    /\ attempt' = 0
    /\ action_success' = FALSE
    /\ log' = << >>
    /\ UNCHANGED success

\* the action that follows action i in run_workflow's body
NextAction(i) == i + 1

Running == pc = "run" /\ program.ok
AtStep(k) == Running /\ rpc = "step" /\ idx \in 1..Len(program.steps) /\ program.steps[idx].kind = k

\* the outer `except Exception`: log, return False
ReturnFalse ==
    /\ rpc' = "returned"
    /\ success' = FALSE

\* logger.warning("Action ... skipped (no plugin found).")
SkipAction ==
    /\ AtStep("skip")
    /\ log' = Append(log, Ev("skip", idx, 0))
    /\ idx' = NextAction(idx)
    /\ UNCHANGED <<workflow, program, pc, exit_code, error_logged, rpc, attempt, action_success,
                   variables, credentials, success, trigger_data, invocations>>
    /\ UNCHANGED outside_main

\* faulty variant: the call is started and not awaited, the run moves on to the next action
BareCall_NotAwaited ==
    /\ AtStep("bare")
    /\ log' = Append(log, Ev("call", idx, 0))
    /\ idx' = NextAction(idx)
    /\ UNCHANGED <<workflow, program, pc, exit_code, error_logged, rpc, attempt, action_success,
                   variables, credentials, success, trigger_data, invocations>>
    /\ UNCHANGED outside_main

\* new_variables = <call>: the call is entered
BareCall ==
    /\ AtStep("bare")
    /\ rpc' = "call"
    /\ log' = Append(log, Ev("call", idx, 0))
    /\ UNCHANGED <<workflow, program, pc, exit_code, error_logged, idx, attempt, action_success,
                   variables, credentials, success, trigger_data, invocations>>
    /\ UNCHANGED outside_main

\* the bare call returns; its mapping is merged
BareReturn ==
    /\ Running /\ rpc = "call"
    /\ \E ret \in Returns :
        variables' = Merge(variables, ret)
    /\ log' = Append(log, Ev("ok", idx, 0))
    /\ rpc' = "step"
    /\ idx' = NextAction(idx)
    /\ UNCHANGED <<workflow, program, pc, exit_code, error_logged, attempt, action_success,
                   credentials, success, trigger_data, invocations>>
    /\ UNCHANGED outside_main

\* faulty variant: no outer boundary, the exception leaves run_workflow and ends the process
BareRaise_Uncaught ==
    /\ Running /\ rpc = "call"
    /\ log' = Append(log, Ev("raise", idx, 0))
    /\ rpc' = "raised"
    /\ pc' = "crashed"
    /\ UNCHANGED <<workflow, program, exit_code, error_logged, idx, attempt, action_success,
                   variables, credentials, success, trigger_data, invocations>>
    /\ UNCHANGED outside_main

\* the bare call raises: the exception reaches the outer boundary
BareRaise ==
    /\ Running /\ rpc = "call"
    /\ log' = Append(log, Ev("raise", idx, 0))
    /\ ReturnFalse
    /\ UNCHANGED <<workflow, program, pc, exit_code, error_logged, idx, attempt, action_success,
                   variables, credentials, trigger_data, invocations>>
    /\ UNCHANGED outside_main

\* action_success = False; for attempt in range(count):
RetryEnter ==
    /\ AtStep("retry")
    /\ action_success' = FALSE
    /\ attempt' = 0
    /\ rpc' = "loop"
    /\ UNCHANGED <<workflow, program, pc, exit_code, error_logged, idx, variables, credentials,
                   success, trigger_data, invocations, log>>
    /\ UNCHANGED outside_main

\* the loop has another value of `attempt`: try: new_variables = <call>
AttemptCall ==
    /\ Running /\ rpc = "loop"
    /\ attempt < program.steps[idx].count
    /\ rpc' = "attempt"
    /\ log' = Append(log, Ev("call", idx, 0))
    /\ UNCHANGED <<workflow, program, pc, exit_code, error_logged, idx, attempt, action_success,
                   variables, credentials, success, trigger_data, invocations>>
    /\ UNCHANGED outside_main

\* faulty variant: no break after a successful attempt
AttemptReturn_NoBreak ==
    /\ Running /\ rpc = "attempt"
    /\ \E ret \in Returns :
        variables' = Merge(variables, ret)
    /\ action_success' = TRUE
    /\ attempt' = attempt + 1
    /\ rpc' = "loop"
    /\ log' = Append(log, Ev("ok", idx, 0))
    /\ UNCHANGED <<workflow, program, pc, exit_code, error_logged, idx, credentials,
                   success, trigger_data, invocations>>
    /\ UNCHANGED outside_main

\* the attempt returns: merge, action_success = True, break
AttemptReturn ==
    /\ Running /\ rpc = "attempt"
    /\ \E ret \in Returns :
        variables' = Merge(variables, ret)
    /\ action_success' = TRUE
    /\ rpc' = "afterloop"
    /\ log' = Append(log, Ev("ok", idx, 0))
    /\ UNCHANGED <<workflow, program, pc, exit_code, error_logged, idx, attempt, credentials,
                   success, trigger_data, invocations>>
    /\ UNCHANGED outside_main

\* faulty variant: the wait is taken after the last failed attempt too
SleepsAfterFailure_Always(step, att) == att < step.count

\* `if attempt < count - 1: time.sleep(delay)`
SleepsAfterFailure(step, att) == att < step.last

\* the attempt raises: except Exception: warn, sleep when attempts remain
AttemptRaise ==
    /\ Running /\ rpc = "attempt"
    /\ log' = IF SleepsAfterFailure(program.steps[idx], attempt)
                THEN log \o <<Ev("fail", idx, 0), Ev("sleep", idx, program.steps[idx].delay)>>
                ELSE Append(log, Ev("fail", idx, 0))
    /\ attempt' = attempt + 1
    /\ rpc' = "loop"
    /\ UNCHANGED <<workflow, program, pc, exit_code, error_logged, idx, action_success, variables,
                   credentials, success, trigger_data, invocations>>
    /\ UNCHANGED outside_main

\* after the loop with action_success set: on to the next action
RetryDone ==
    /\ Running /\ rpc = "afterloop" /\ action_success
    /\ rpc' = "step"
    /\ idx' = NextAction(idx)
    /\ UNCHANGED <<workflow, program, pc, exit_code, error_logged, attempt, action_success, variables,
                   credentials, success, trigger_data, invocations, log>>
    /\ UNCHANGED outside_main

\* faulty variant: the exhaustion is logged and absorbed, the run goes on
RetryExhausted_Absorbed ==
    /\ Running /\ rpc = "loop"
    /\ attempt >= program.steps[idx].count
    /\ ~action_success
    /\ log' = Append(log, Ev("fatal", idx, 0))
    /\ rpc' = "step"
    /\ idx' = NextAction(idx)
    /\ UNCHANGED <<workflow, program, pc, exit_code, error_logged, attempt, action_success,
                   variables, credentials, success, trigger_data, invocations>>
    /\ UNCHANGED outside_main

\* the loop ran out: `if not action_success: raise RuntimeError(...)`, caught by the outer boundary
RetryExhausted ==
    /\ Running /\ rpc = "loop"
    /\ attempt >= program.steps[idx].count
    /\ ~action_success
    /\ log' = Append(log, Ev("fatal", idx, 0))
    /\ ReturnFalse
    /\ UNCHANGED <<workflow, program, pc, exit_code, error_logged, idx, attempt, action_success,
                   variables, credentials, trigger_data, invocations>>
    /\ UNCHANGED outside_main

\* end of the try body: logger.info("Workflow completed successfully"); return True
ReturnTrue ==
    /\ Running /\ rpc = "step" /\ idx > Len(program.steps)
    /\ rpc' = "returned"
    /\ success' = TRUE
    /\ UNCHANGED <<workflow, program, pc, exit_code, error_logged, idx, attempt, action_success,
                   variables, credentials, trigger_data, invocations, log>>
    /\ UNCHANGED outside_main

\* ------------------------------------------------------ trigger harnesses
AtMain(k) == pc = "main" /\ program.ok /\ program.harness.kind = k
CredentialOutcomes == {"loaded", "empty"}

\* manual: success = run_workflow(trigger_data=None)
ManualMain ==
    /\ AtMain("manual")
    /\ \E creds \in CredentialOutcomes : run_workflow(NoPayload, creds)
    /\ pc' = "run"
    /\ UNCHANGED <<workflow, program, exit_code, error_logged>>
    /\ UNCHANGED outside_main

\* faulty variant: the result of the run is dropped
ExitStatus_Zero(ok) == 0

\* `0 if success else 1`
ExitStatus(ok) == IF ok THEN 0 ELSE 1

\* manual: sys.exit(0 if success else 1)
ManualExit ==
    /\ pc = "run" /\ program.harness.kind = "manual" /\ rpc = "returned"
    /\ exit_code' = ExitStatus(success)
    /\ pc' = "exited"
    /\ UNCHANGED <<workflow, program, error_logged>>
    /\ UNCHANGED runvars
    /\ UNCHANGED outside_main

\* unknown: logger.error("Unknown trigger type: ..."); sys.exit(1)
UnknownMain ==
    /\ AtMain("unknown")
    /\ error_logged' = TRUE
    /\ exit_code' = 1
    /\ pc' = "exited"
    /\ UNCHANGED <<workflow, program>>
    /\ UNCHANGED runvars
    /\ UNCHANGED outside_main

\* file, schedule, webhook: the harness starts to watch, to sleep or to serve
ListenMain ==
    /\ \E k \in {"file", "schedule", "webhook"} : AtMain(k)
    /\ pc' = "waiting"
    /\ UNCHANGED <<workflow, program, exit_code, error_logged>>
    /\ UNCHANGED runvars
    /\ UNCHANGED outside_main

Waiting(k) == pc = "waiting" /\ program.harness.kind = k /\ invocations < MaxRuns

\* file: FileTriggerHandler.on_created for a created file
on_created ==
    /\ Waiting("file")
    /\ \E creds \in CredentialOutcomes :
        run_workflow(Payload([EmptyMapping EXCEPT !["event_type"] = "created", !["src_path"] = "/in/a.txt"]), creds)
    /\ pc' = "run"
    /\ UNCHANGED <<workflow, program, exit_code, error_logged>>
    /\ UNCHANGED outside_main

\* schedule: the sleep until next_run_time is over: run_workflow(trigger_data=None)
ScheduleFire ==
    /\ Waiting("schedule")
    /\ \E creds \in CredentialOutcomes : run_workflow(NoPayload, creds)
    /\ pc' = "run"
    /\ UNCHANGED <<workflow, program, exit_code, error_logged>>
    /\ UNCHANGED outside_main

\* webhook: WebhookHandler.do_POST for the configured path
do_POST ==
    /\ Waiting("webhook")
    /\ \E creds \in CredentialOutcomes, data \in {"json", "raw"} :
        run_workflow(Payload([EmptyMapping EXCEPT !["data"] = data]), creds)
    /\ pc' = "run"
    /\ UNCHANGED <<workflow, program, exit_code, error_logged>>
    /\ UNCHANGED outside_main

\* run_workflow returns into the handler or the schedule loop, which goes on
HarnessResume ==
    /\ pc = "run" /\ program.harness.kind \in {"file", "schedule", "webhook"} /\ rpc = "returned"
    /\ pc' = "waiting"
    /\ rpc' = "idle"
    /\ UNCHANGED <<workflow, program, exit_code, error_logged, idx, attempt, action_success, variables,
                   credentials, success, trigger_data, invocations, log>>
    /\ UNCHANGED outside_main

Next ==
    \/ GenerateCode
    \/ SkipAction
    \/ BareCall
    \/ BareReturn
    \/ BareRaise
    \/ RetryEnter
    \/ AttemptCall
    \/ AttemptReturn
    \/ AttemptRaise
    \/ RetryDone
    \/ RetryExhausted
    \/ ReturnTrue
    \/ ManualMain
    \/ ManualExit
    \/ UnknownMain
    \/ ListenMain
    \/ on_created
    \/ ScheduleFire
    \/ do_POST
    \/ HarnessResume

Spec == Init /\ [][Next]_vars

\* ========================================================= schedule loops
MaxFires == 3        \* invocations a schedule loop makes
MaxErrors == 2       \* passes through the except branch of a schedule loop

CronPeriod == 60     \* "* * * * *": every minute, in seconds
Cooldown == 60       \* time.sleep(60) in the except branch
Durations == {0, 30, 90}   \* how long an invocation can take
StartTimes == {0, 30}

\* croniter(schedule, base).get_next(): the first fire time after base
get_next(base) == ((base \div CronPeriod) + 1) * CronPeriod

Max(a, b) == IF a >= b THEN a ELSE b

\* the document compiled for the schedule loops
ScheduleWorkflow == [trigger |-> [has |-> TRUE, type |-> "schedule", port |-> Missing], actions |-> << >>]

\* base_time = datetime.now() (harness) or time.time() (plugin), before the loop
InitSched ==
    /\ workflow = ScheduleWorkflow
    /\ program = generate_code(ScheduleWorkflow)
    /\ pc = "waiting"
    /\ exit_code = -1
    /\ rpc = "idle"
    /\ idx = 0
    /\ attempt = 0
    /\ action_success = FALSE
    /\ variables = EmptyMapping
    /\ credentials = "empty"
    /\ success = FALSE
    /\ trigger_data = NoPayload
    /\ invocations = 0
    /\ error_logged = FALSE
    /\ log = << >>
    /\ impl \in {"harness", "plugin"}
    /\ schedule_ok \in BOOLEAN
    /\ now \in StartTimes
    /\ base_time = now
    /\ next_run_time = 0
    /\ spc = "top"
    /\ stopped = FALSE
    /\ fires = << >>
    /\ errors = 0
    /\ NoListener

In(i, at) == impl = i /\ spc = at

\* the last fire, with the outcome of its invocation recorded
Finished(out) == [fires EXCEPT ![Len(fires)].out = out]

\* faulty variant: the error leaves the loop
ExceptBranch_Escapes ==
    /\ errors' = errors + 1
    /\ spc' = "returned"

\* the except branch is entered: the error is logged, time.sleep(60) comes next
ExceptBranch ==
    /\ errors' = errors + 1
    /\ spc' = "cooldown"

\* harness: croniter(...).get_next(datetime); sleep until next_run_time when it is ahead
HarnessNextRun ==
    /\ In("harness", "top") /\ schedule_ok
    /\ Len(fires) < MaxFires
    /\ next_run_time' = get_next(base_time)
    /\ now' = Max(now, get_next(base_time))
    /\ spc' = "invoke"
    /\ UNCHANGED <<impl, schedule_ok, base_time, stopped, fires, errors>>
    /\ UNCHANGED outside_sched

\* harness: croniter rejects the expression
HarnessCronError ==
    /\ In("harness", "top") /\ ~schedule_ok
    /\ errors < MaxErrors
    /\ ExceptBranch
    /\ UNCHANGED <<impl, schedule_ok, now, base_time, next_run_time, stopped, fires>>
    /\ UNCHANGED outside_sched

\* harness: time.sleep(60) in the except branch, then the next pass of `while True`
HarnessCooldown ==
    /\ In("harness", "cooldown")
    /\ now' = now + Cooldown
    /\ spc' = "top"
    /\ UNCHANGED <<impl, schedule_ok, base_time, next_run_time, stopped, fires, errors>>
    /\ UNCHANGED outside_sched

\* harness: run_workflow(trigger_data=None) is entered
HarnessInvoke ==
    /\ In("harness", "invoke")
    /\ fires' = Append(fires, [T |-> next_run_time, at |-> now, out |-> "running"])
    /\ spc' = "invoking"
    /\ UNCHANGED <<impl, schedule_ok, now, base_time, next_run_time, stopped, errors>>
    /\ UNCHANGED outside_sched

\* the base of the next pass after a fire for time T that returned at time t
HarnessBase(T, t) == T

\* what run_workflow hands back to the loop: True, or False after its own `except Exception`
RunResults == {"ok", "failed"}

\* harness: run_workflow returns (it never raises an Exception); base_time = next_run_time
HarnessReturn ==
    /\ In("harness", "invoking")
    /\ \E d \in Durations :
        /\ now' = now + d
        /\ base_time' = HarnessBase(next_run_time, now + d)
    /\ \E out \in RunResults : fires' = Finished(out)
    /\ spc' = "top"
    /\ UNCHANGED <<impl, schedule_ok, next_run_time, stopped, errors>>
    /\ UNCHANGED outside_sched

\* faulty variant: `while True`, as in the emitted harness
PluginLoopTest_WhileTrue ==
    /\ In("plugin", "top")
    /\ spc' = "body"
    /\ UNCHANGED <<impl, schedule_ok, now, base_time, next_run_time, stopped, fires, errors>>
    /\ UNCHANGED outside_sched

\* plugin: `while not self._stopped`
PluginLoopTest ==
    /\ In("plugin", "top")
    /\ spc' = IF stopped THEN "returned" ELSE "body"
    /\ UNCHANGED <<impl, schedule_ok, now, base_time, next_run_time, stopped, fires, errors>>
    /\ UNCHANGED outside_sched

\* plugin: croniter(...).get_next(); sleep_end_time; the sleep loop begins
PluginNextRun ==
    /\ In("plugin", "body") /\ schedule_ok
    /\ Len(fires) < MaxFires \/ stopped
    /\ next_run_time' = get_next(base_time)
    /\ spc' = "sleeping"
    /\ UNCHANGED <<impl, schedule_ok, now, base_time, stopped, fires, errors>>
    /\ UNCHANGED outside_sched

\* plugin: croniter rejects the expression
PluginCronError ==
    /\ In("plugin", "body") /\ ~schedule_ok
    /\ errors < MaxErrors \/ (stopped /\ errors = MaxErrors)
    /\ ExceptBranch
    /\ UNCHANGED <<impl, schedule_ok, now, base_time, next_run_time, stopped, fires>>
    /\ UNCHANGED outside_sched

\* plugin: the sleep loop ends: the time is up, or the stop flag was seen
PluginWake ==
    /\ In("plugin", "sleeping")
    /\ now' = IF stopped THEN now ELSE Max(now, next_run_time)
    /\ spc' = "woken"
    /\ UNCHANGED <<impl, schedule_ok, base_time, next_run_time, stopped, fires, errors>>
    /\ UNCHANGED outside_sched

\* plugin: `if self._stopped: break`
PluginStopTest ==
    /\ In("plugin", "woken")
    /\ spc' = IF stopped THEN "returned" ELSE "invoke"
    /\ UNCHANGED <<impl, schedule_ok, now, base_time, next_run_time, stopped, fires, errors>>
    /\ UNCHANGED outside_sched

\* plugin: on_trigger({}) is entered; the flag is not read again after the test
PluginInvoke ==
    /\ In("plugin", "invoke")
    /\ spc' = "invoking"
    /\ fires' = Append(fires, [T |-> next_run_time, at |-> now, out |-> "running"])
    /\ UNCHANGED <<impl, schedule_ok, now, base_time, next_run_time, stopped, errors>>
    /\ UNCHANGED outside_sched

\* the base of the next pass after a fire for time T that returned at time t
PluginBase(T, t) == t

\* plugin: on_trigger returns; base_time = time.time()
PluginReturn ==
    /\ In("plugin", "invoking")
    /\ \E d \in Durations :
        /\ now' = now + d
        /\ base_time' = PluginBase(next_run_time, now + d)
    /\ \E out \in RunResults : fires' = Finished(out)
    /\ spc' = "top"
    /\ UNCHANGED <<impl, schedule_ok, next_run_time, stopped, errors>>
    /\ UNCHANGED outside_sched

\* plugin: time.sleep(60) in the except branch, then the next `while` test
PluginCooldown ==
    /\ In("plugin", "cooldown")
    /\ now' = now + Cooldown
    /\ spc' = "top"
    /\ UNCHANGED <<impl, schedule_ok, base_time, next_run_time, stopped, fires, errors>>
    /\ UNCHANGED outside_sched

\* plugin: on_trigger raises: except Exception, base_time keeps its value
PluginRaise ==
    /\ In("plugin", "invoking")
    /\ errors < MaxErrors
    /\ ExceptBranch
    /\ fires' = Finished("raised")
    /\ UNCHANGED <<impl, schedule_ok, now, base_time, next_run_time, stopped>>
    /\ UNCHANGED outside_sched

\* ScheduleTriggerPlugin.stop(), called from another thread
stop ==
    /\ impl = "plugin" /\ spc # "returned"
    /\ ~stopped
    /\ stopped' = TRUE
    /\ UNCHANGED <<impl, schedule_ok, now, base_time, next_run_time, spc, fires, errors>>
    /\ UNCHANGED outside_sched

NextSched ==
    \/ HarnessNextRun
    \/ HarnessCronError
    \/ HarnessCooldown
    \/ HarnessInvoke
    \/ HarnessReturn
    \/ PluginLoopTest
    \/ PluginNextRun
    \/ PluginCronError
    \/ PluginWake
    \/ PluginStopTest
    \/ PluginInvoke
    \/ PluginReturn
    \/ PluginRaise
    \/ PluginCooldown
    \/ stop

SpecSched == InitSched /\ [][NextSched]_vars

\* start() runs in its own thread and its callback returns or raises:
\* each step of the plugin's loop is eventually taken; stop() is never forced
PluginStep ==
    \/ PluginLoopTest
    \/ PluginNextRun
    \/ PluginCronError
    \/ PluginWake
    \/ PluginStopTest
    \/ PluginInvoke
    \/ PluginReturn
    \/ PluginRaise
    \/ PluginCooldown

SpecSchedFair == SpecSched /\ WF_vars(PluginStep)

\* ================================================================ listeners
MaxEvents == 2       \* requests or file-system events a listener handles

ConfiguredPath == "/hook"
JsonBody == "<json text>"          \* UTF-8 bytes of a JSON document
TextBody == "<plain text>"         \* UTF-8 bytes that are not JSON
BinaryBody == "<not utf-8>"        \* bytes that are not UTF-8, such as b'\xff'
Bodies == {JsonBody, TextBody, BinaryBody}

\* a POST as do_POST sees it: s.path, s.headers['Content-Length'], the bytes of the body
PostRequests == [kind : {"POST"}, path : {ConfiguredPath, "/other"}, length : {"present", Missing}, body : Bodies]

\* a create event as on_created sees it
FileEvents == [kind : {"created"}, is_directory : BOOLEAN, src_path : {"/in/a.txt", "/in/sub"}]

Listeners == [kind : {"file", "webhook"}, impl : {"harness", "plugin"}]

\* json.loads(post_data): the parsed value, json.JSONDecodeError for text that is
\* not JSON, UnicodeDecodeError (not a JSONDecodeError) for bytes that are not UTF-8
json_loads(b) ==
    CASE b = JsonBody   -> [exc |-> "none", value |-> [form |-> "json", of |-> b]]
      [] b = TextBody   -> [exc |-> "JSONDecodeError", value |-> Null]
      [] b = BinaryBody -> [exc |-> "UnicodeDecodeError", value |-> Null]

\* {"raw": post_data.decode('utf-8')}
RawWrapper(b) == [form |-> "raw", of |-> b]

\* send_response(200); end_headers(); wfile.write(b'OK')
Ok200 == [status |-> 200, body |-> "OK"]
\* send_error(404, "Not Found")
NotFound404 == [status |-> 404, body |-> "Not Found"]

\* a call of the workflow function, with the replies already sent when it is made
Call(payload) == [payload |-> payload, replies_before |-> replies]

\* the document compiled for a listener
ListenerWorkflow(k) == [trigger |-> [has |-> TRUE, type |-> k, port |-> Missing], actions |-> << >>]

InitTrig ==
    /\ listener \in Listeners
    /\ workflow = ListenerWorkflow(listener.kind)
    /\ program = generate_code(workflow)
    /\ pc = "waiting"
    /\ exit_code = -1
    /\ rpc = "idle"
    /\ idx = 0
    /\ attempt = 0
    /\ action_success = FALSE
    /\ variables = EmptyMapping
    /\ credentials = "empty"
    /\ success = FALSE
    /\ trigger_data = NoPayload
    /\ invocations = 0
    /\ error_logged = FALSE
    /\ log = << >>
    /\ NoLoop
    /\ resource = "none"
    /\ tpc = "start"
    /\ exit_path = "none"
    /\ request = NoRequest
    /\ hpc = "idle"
    /\ replies = << >>
    /\ calls = << >>
    /\ served = << >>
    /\ outputs = << >>
    /\ attempts = << >>
    /\ import_block = << >>
    /\ resolved = << >>
    /\ evaluated = << >>
    /\ call = << >>

Handling(k, at) == listener.kind = k /\ tpc = "handling" /\ hpc = at

\* HTTPServer((host, port), WebhookHandler) / Observer().schedule(); observer.start():
\* the socket is bound or the watch is started, or the constructor / start() raises
Acquire ==
    /\ tpc = "start"
    /\ \/ /\ resource' = "held"
          /\ tpc' = "listening"
          /\ UNCHANGED exit_path
       \/ /\ resource' = "none"
          /\ tpc' = "exited"
          /\ exit_path' = "exception"
    /\ UNCHANGED <<listener, request, hpc, replies, calls, served>>
    /\ UNCHANGED outside_trig

\* serve_forever() hands a POST to do_POST
PostArrives ==
    /\ listener.kind = "webhook" /\ tpc = "listening"
    /\ Len(served) < MaxEvents
    /\ request' \in PostRequests
    /\ tpc' = "handling"
    /\ hpc' = "path"
    /\ UNCHANGED <<listener, resource, exit_path, replies, calls, served>>
    /\ UNCHANGED outside_trig

\* do_POST: `if s.path == path`, else send_error(404, "Not Found")
PostPathTest ==
    /\ Handling("webhook", "path")
    /\ IF request.path = ConfiguredPath
         THEN /\ hpc' = "length"
              /\ UNCHANGED replies
         ELSE /\ hpc' = "done"
              /\ replies' = Append(replies, NotFound404)
    /\ UNCHANGED <<listener, resource, tpc, exit_path, request, calls, served>>
    /\ UNCHANGED outside_trig

\* do_POST: int(s.headers['Content-Length']) and rfile.read; int(None) raises TypeError
PostReadBody ==
    /\ Handling("webhook", "length")
    /\ hpc' = IF request.length = Missing THEN "raised" ELSE "respond"
    /\ UNCHANGED <<listener, resource, tpc, exit_path, request, replies, calls, served>>
    /\ UNCHANGED outside_trig

\* do_POST: send_response(200), end_headers(), wfile.write(b'OK')
PostRespond ==
    /\ Handling("webhook", "respond")
    /\ replies' = Append(replies, Ok200)
    /\ hpc' = "parse"
    /\ UNCHANGED <<listener, resource, tpc, exit_path, request, calls, served>>
    /\ UNCHANGED outside_trig

\* do_POST: json.loads, `except json.JSONDecodeError` gives the raw wrapper, then
\* run_workflow(trigger_data={"data": data}) / on_trigger({"data": data})
PostParseInvoke ==
    /\ Handling("webhook", "parse")
    /\ LET r == json_loads(request.body)
       IN CASE r.exc = "none" ->
                 /\ calls' = Append(calls, Call([data |-> r.value]))
                 /\ hpc' = "done"
            [] r.exc = "JSONDecodeError" ->
                 /\ calls' = Append(calls, Call([data |-> RawWrapper(request.body)]))
                 /\ hpc' = "done"
            [] OTHER ->
                 /\ hpc' = "raised"
                 /\ UNCHANGED calls
    /\ UNCHANGED <<listener, resource, tpc, exit_path, request, replies, served>>
    /\ UNCHANGED outside_trig

\* the observer hands a create event to FileTriggerHandler.on_created
FileCreated ==
    /\ listener.kind = "file" /\ tpc = "listening"
    /\ Len(served) < MaxEvents
    /\ request' \in FileEvents
    /\ tpc' = "handling"
    /\ hpc' = "created"
    /\ UNCHANGED <<listener, resource, exit_path, replies, calls, served>>
    /\ UNCHANGED outside_trig

\* faulty variant: the handler does not look at is_directory
FileOnCreated_AnyEvent ==
    /\ Handling("file", "created")
    /\ calls' = Append(calls, Call([event_type |-> "created", src_path |-> request.src_path]))
    /\ hpc' = "done"
    /\ UNCHANGED <<listener, resource, tpc, exit_path, request, replies, served>>
    /\ UNCHANGED outside_trig

\* on_created: `if not event.is_directory`: the workflow function is called with the
\* payload {"event_type": "created", "src_path": event.src_path}
FileOnCreated ==
    /\ Handling("file", "created")
    /\ IF request.is_directory
         THEN UNCHANGED calls
         ELSE calls' = Append(calls, Call([event_type |-> "created", src_path |-> request.src_path]))
    /\ hpc' = "done"
    /\ UNCHANGED <<listener, resource, tpc, exit_path, request, replies, served>>
    /\ UNCHANGED outside_trig

\* the handler returns, or its exception is reported by the server: the listener goes on
HandlerEnds ==
    /\ tpc = "handling" /\ hpc \in {"done", "raised"}
    /\ served' = Append(served, [request |-> request, replies |-> replies, calls |-> calls,
                                 raised |-> hpc = "raised"])
    /\ request' = NoRequest
    /\ replies' = << >>
    /\ calls' = << >>
    /\ hpc' = "idle"
    /\ tpc' = "listening"
    /\ UNCHANGED <<listener, resource, exit_path>>
    /\ UNCHANGED outside_trig

\* the ways a blocked listener stops
ExitPaths == {"interrupt", "exception", "stop"}

\* the paths the code of listener l has: the harnesses block the main thread, which can
\* be interrupted or raise; WebhookTriggerPlugin.start blocks too and has stop();
\* FileTriggerPlugin.start returns at once and leaves the lifetime to stop()
HasPath(l, how) ==
    CASE l.impl = "harness" -> how \in {"interrupt", "exception"}
      [] l.kind = "webhook" -> TRUE
      [] OTHER              -> how = "stop"

\* whether the code releases the resource on that path:
\*   file harness: `except KeyboardInterrupt: observer.stop()`, nothing for other exceptions
\*   webhook harness: `with HTTPServer(...) as httpd` closes on every path
\*   webhook plugin: `finally: self.server.server_close()`
\*   file plugin: stop() calls observer.stop() and observer.join()
Releases(l, how) ==
    IF l.kind = "file" /\ l.impl = "harness" THEN how = "interrupt" ELSE TRUE

\* the listener stops while it waits for the next request or event
Exit ==
    /\ tpc = "listening"
    /\ \E how \in ExitPaths :
        /\ HasPath(listener, how)
        /\ exit_path' = how
        /\ resource' = IF Releases(listener, how) THEN "released" ELSE resource
    /\ tpc' = "exited"
    /\ UNCHANGED <<listener, request, hpc, replies, calls, served>>
    /\ UNCHANGED outside_trig

NextTrig ==
    \/ Acquire
    \/ PostArrives
    \/ PostPathTest
    \/ PostReadBody
    \/ PostRespond
    \/ PostParseInvoke
    \/ FileCreated
    \/ FileOnCreated
    \/ HandlerEnds
    \/ Exit

SpecTrig == InitTrig /\ [][NextTrig]_vars

\* ======================================================= generated text
MaxGenerations == 2  \* calls of generate_code on one document

\* the plugin classes of wizflow/plugins; summarize is not in the registry
PluginTypes == action_plugins \cup {"summarize"}

Imp(stmt, module, names) == [stmt |-> stmt, module |-> module, names |-> names]

\* ActionPlugin.required_imports of each plugin class
required_imports(p) ==
    CASE p = "api_call"   -> {Imp("import", "requests", "")}
      [] p = "web_scrape" -> {Imp("import", "requests", ""), Imp("from", "bs4", "BeautifulSoup")}
      [] p = "send_email" -> {Imp("import", "smtplib", ""),
                              Imp("from", "email.mime.text", "MIMEText"),
                              Imp("from", "email.mime.multipart", "MIMEMultipart")}
      [] p = "summarize"  -> {Imp("from", "wizflow.core.config", "Config"),
                              Imp("from", "wizflow.core.llm_interface", "LLMInterface")}
      [] OTHER            -> {}

\* the function a plugin's get_function_definition defines
function_name(p) ==
    CASE p = "api_call"      -> "make_api_call"
      [] p = "web_scrape"    -> "scrape_web"
      [] p = "file_process"  -> "process_file"
      [] p = "summarize"     -> "summarize_text"
      [] OTHER               -> p

\* every import line the generator can emit, in the order sorted() gives strings
ImportLines ==
    << Imp("from", "bs4", "BeautifulSoup"),
       Imp("from", "croniter", "croniter"),
       Imp("from", "email.mime.multipart", "MIMEMultipart"),
       Imp("from", "email.mime.text", "MIMEText"),
       Imp("from", "http.server", "BaseHTTPRequestHandler, HTTPServer"),
       Imp("from", "watchdog.events", "FileSystemEventHandler"),
       Imp("from", "watchdog.observers", "Observer"),
       Imp("from", "wizflow.core.config", "Config"),
       Imp("from", "wizflow.core.llm_interface", "LLMInterface"),
       Imp("import", "requests", ""),
       Imp("import", "smtplib", ""),
       Imp("import", "time", "") >>

\* the members of sequence u that are in S, in u's order
Filter(u, S) ==
    LET In_S(x) == x \in S
    IN  SelectSeq(u, In_S)

Reverse(q) == [i \in 1..Len(q) |-> q[Len(q) + 1 - i]]

\* sorted(list(imports))
sorted(S) == Filter(ImportLines, S)

\* iteration over a Python set follows the hashes of its members: of strings they
\* vary with the hash seed of the process, of plugin objects with their addresses.
\* Two of the orders that can come out, named by the seed that gives them:
HashSeeds == {"a", "b"}
ModuleNames ==
    << "json", "sys", "datetime", "typing", "os", "logging", "requests", "bs4", "smtplib",
       "email.mime.text", "email.mime.multipart", "wizflow.core.credentials", "wizflow.core.config",
       "wizflow.core.llm_interface", "time", "watchdog.observers", "watchdog.events", "croniter",
       "http.server" >>
PluginNames == << "api_call", "file_process", "log_message", "send_email", "send_whatsapp", "web_scrape" >>
iterate(S, universe, seed) == IF seed = "a" THEN Filter(universe, S) ELSE Reverse(Filter(universe, S))

\* the set of plugins of the registry that the actions of the document name
_get_required_plugins(wf) ==
    { wf.actions[i].type : i \in { j \in DOMAIN wf.actions : get_action_plugin(wf.actions[j].type) } }

\* parts[1] of "import m" and "from m import n"
module_of(imp) == imp.module

\* workflow.get("trigger", {}).get("type"): no default here
raw_trigger_type(wf) == IF wf.trigger.has THEN wf.trigger.type ELSE Missing

\* `if action.get('on_error', {}).get('retry')` for some action
AnyRetry(wf) == \E i \in DOMAIN wf.actions : wf.actions[i].retry.kind = "dict"

Baseline == {"json", "sys", "datetime", "typing", "os", "logging"}

_get_allowed_modules(plugins, wf) ==
    LET tt == raw_trigger_type(wf)
    IN  Baseline
        \cup { module_of(imp) : imp \in UNION { required_imports(p) : p \in plugins } }
        \cup {"wizflow.core.credentials", "wizflow.core.config", "wizflow.core.llm_interface"}
        \cup (IF tt \in {"file", "schedule"} THEN {"time"} ELSE {})
        \cup (CASE tt = "file"     -> {"watchdog.observers", "watchdog.events"}
                [] tt = "schedule" -> {"croniter"}
                [] tt = "webhook"  -> {"http.server"}
                [] OTHER           -> {})
        \cup (IF AnyRetry(wf) THEN {"time"} ELSE {})

\* json.dumps(list(allowed_modules)): the list embedded in _secure_import
_get_base_template(allowed_modules, seed) == iterate(allowed_modules, ModuleNames, seed)

\* the "Additional imports" section: the sorted import lines
_generate_imports(wf, plugins) ==
    LET tt == raw_trigger_type(wf)
    IN  sorted(UNION { required_imports(p) : p \in plugins }
               \cup (IF tt \in {"file", "schedule"} \/ AnyRetry(wf) THEN {Imp("import", "time", "")} ELSE {})
               \cup (CASE tt = "file"     -> {Imp("from", "watchdog.observers", "Observer"),
                                              Imp("from", "watchdog.events", "FileSystemEventHandler")}
                       [] tt = "schedule" -> {Imp("from", "croniter", "croniter")}
                       [] tt = "webhook"  -> {Imp("from", "http.server", "BaseHTTPRequestHandler, HTTPServer")}
                       [] OTHER           -> {}))

\* `for plugin in plugins: code += plugin.get_function_definition()`
_generate_action_definitions(plugins, seed) ==
    LET order == iterate(plugins, PluginNames, seed)
    IN  [i \in 1..Len(order) |-> function_name(order[i])]

\* faulty variant: one definition per action of the document, not per plugin
EmittedDefinitions_PerAction(wf, seed) ==
    LET matched == SelectSeq(wf.actions, LAMBDA a : get_action_plugin(a.type))
    IN  [i \in 1..Len(matched) |-> function_name(matched[i].type)]

\* generate_code: required_plugins = _get_required_plugins(wf), then
\* _generate_action_definitions(required_plugins)
EmittedDefinitions(wf, seed) == _generate_action_definitions(_get_required_plugins(wf), seed)

\* the text generate_code returns, by its sections, in a process whose string hashes
\* follow str_seed and whose plugin objects lie as obj_seed says
generate_text(wf, str_seed, obj_seed) ==
    [allowed     |-> _get_base_template(_get_allowed_modules(_get_required_plugins(wf), wf), str_seed),
     imports     |-> _generate_imports(wf, _get_required_plugins(wf)),
     definitions |-> EmittedDefinitions(wf, obj_seed),
     steps       |-> _generate_action_calls(wf),
     harness     |-> _generate_main_execution(wf)]

\* the documents generated from: actions over five types, one of them with a retry
GenActions ==
    [type : {"api_call", "web_scrape", "send_email", "log_message", "summarize"}, retry : {NoRetry}]
    \cup [type : {"log_message"}, retry : {[kind |-> "dict", hasCount |-> FALSE, count |-> 0, hasDelay |-> FALSE, delay |-> 0]}]
GenTriggers == {NoTrigger} \cup { [has |-> TRUE, type |-> t, port |-> Missing] : t \in {"manual", "file", "schedule", "webhook"} }
GenWorkflows == [trigger : GenTriggers, actions : UNION { [1..n -> GenActions] : n \in 0..MaxActions }]

InitGen ==
    /\ workflow \in GenWorkflows
    /\ program = NoProgram
    /\ pc = "document"
    /\ exit_code = -1
    /\ rpc = "idle"
    /\ idx = 0
    /\ attempt = 0
    /\ action_success = FALSE
    /\ variables = EmptyMapping
    /\ credentials = "empty"
    /\ success = FALSE
    /\ trigger_data = NoPayload
    /\ invocations = 0
    /\ error_logged = FALSE
    /\ log = << >>
    /\ NoLoop
    /\ NoListener

\* one more call of generate_code(workflow), in some process, by some generator
Generate ==
    /\ Len(outputs) < MaxGenerations
    /\ \E str_seed \in HashSeeds, obj_seed \in HashSeeds :
        outputs' = Append(outputs, generate_text(workflow, str_seed, obj_seed))
    /\ UNCHANGED outside_gen

NextGen == Generate

SpecGen == InitGen /\ [][NextGen]_vars

\* ========================================================= import guard
MaxImports == 2      \* calls of the import guard in one process

\* name.split('.') of the module names the generator puts in the allowed set
Components(m) ==
    CASE m = "email.mime.text"            -> <<"email", "mime", "text">>
      [] m = "email.mime.multipart"       -> <<"email", "mime", "multipart">>
      [] m = "wizflow.core.credentials"   -> <<"wizflow", "core", "credentials">>
      [] m = "wizflow.core.config"        -> <<"wizflow", "core", "config">>
      [] m = "wizflow.core.llm_interface" -> <<"wizflow", "core", "llm_interface">>
      [] m = "watchdog.observers"         -> <<"watchdog", "observers">>
      [] m = "watchdog.events"            -> <<"watchdog", "events">>
      [] m = "http.server"                -> <<"http", "server">>
      [] OTHER                            -> <<m>>

\* ALLOWED_MODULES = set(json.loads(<the embedded list>)), each name by its components
ALLOWED_MODULES(wf) == { Components(m) : m \in _get_allowed_modules(_get_required_plugins(wf), wf) }

\* the names handed to __import__, by their components
ImportedNames ==
    { <<"os">>, <<"os", "path">>, <<"socket">>, <<"time">>, <<"requests">>, <<"requests", "adapters">>,
      <<"email", "mime">>, <<"email", "mime", "text">>, <<"wizflow", "core", "credentials">>,
      <<"wizflow", "plugins", "base">> }
Levels == {0, 1}

\* '.'.join(name.split('.')[:-1]): the name without its last component
parent(name) == SubSeq(name, 1, Len(name) - 1)

\* _secure_import(name, ..., level): "ImportError" with the name it reports, or the
\* call of _original_import
_secure_import(name, level, allowed) ==
    IF Len(name) > 1 /\ name[1] = "wizflow" /\ level > 0 THEN [outcome |-> "imports", named |-> << >>]
    ELSE IF parent(name) \in allowed THEN [outcome |-> "imports", named |-> << >>]
    ELSE IF name \notin allowed /\ <<name[1]>> \notin allowed THEN [outcome |-> "ImportError", named |-> name]
    ELSE [outcome |-> "imports", named |-> << >>]

\* the documents whose guard is called
GuardWorkflows == [trigger : GenTriggers, actions : UNION { [1..n -> GenActions] : n \in 0..1 }]

InitGuard ==
    /\ workflow \in GuardWorkflows
    /\ program = NoProgram
    /\ pc = "document"
    /\ exit_code = -1
    /\ rpc = "idle"
    /\ idx = 0
    /\ attempt = 0
    /\ action_success = FALSE
    /\ variables = EmptyMapping
    /\ credentials = "empty"
    /\ success = FALSE
    /\ trigger_data = NoPayload
    /\ invocations = 0
    /\ error_logged = FALSE
    /\ log = << >>
    /\ NoLoop
    /\ NoListener

\* an import statement or __import__ call reaches the installed guard
GuardedImport ==
    /\ Len(attempts) < MaxImports
    /\ import_block = << >>
    /\ \E name \in ImportedNames, level \in Levels :
        attempts' = Append(attempts, [name |-> name, level |-> level,
                                      result |-> _secure_import(name, level, ALLOWED_MODULES(workflow))])
    /\ UNCHANGED import_block
    /\ UNCHANGED outside_guard

\* What loading a module brings about: the names its own code (and the import
\* machinery reading it) hands to __import__ while _original_import runs. `time` is
\* built in and loaded with the interpreter. A library module imports nothing when
\* the process has loaded it before, and otherwise modules of the interpreter and
\* the standard library, of which `_io` and `socket` stand here.
Loads(m) ==
    IF m = "time" THEN { {} } ELSE { {}, {<<"_io">>}, {<<"socket">>} }

\* an import statement of the program, executed with the guard installed as the
\* __import__ of the process: the guard is called for the module of the statement
\* and, inside _original_import, for every name the loading module imports
import_statement(m, deps, allowed) ==
    IF _secure_import(Components(m), 0, allowed).outcome = "ImportError"
      THEN _secure_import(Components(m), 0, allowed)
    ELSE IF \E d \in deps : _secure_import(d, 0, allowed).outcome = "ImportError"
      THEN _secure_import(CHOOSE d \in deps : _secure_import(d, 0, allowed).outcome = "ImportError", 0, allowed)
    ELSE [outcome |-> "imports", named |-> << >>]

\* the import block of the program, _generate_imports(workflow, plugins)
EmittedImports == _generate_imports(workflow, _get_required_plugins(workflow))

\* the next statement of the import block is executed; an ImportError ends the program
RunImport ==
    /\ attempts = << >>
    /\ Len(import_block) < Len(EmittedImports)
    /\ \A k \in DOMAIN import_block : import_block[k].result.outcome = "imports"
    /\ LET stmt == EmittedImports[Len(import_block) + 1]
       IN  \E deps \in Loads(module_of(stmt)) :
            import_block' = Append(import_block,
                [stmt |-> stmt, result |-> import_statement(module_of(stmt), deps, ALLOWED_MODULES(workflow))])
    /\ UNCHANGED attempts
    /\ UNCHANGED outside_guard

NextGuard == GuardedImport \/ RunImport

SpecGuard == InitGuard /\ [][NextGuard]_vars

\* =================================================== template resolution
MaxLen == 6          \* length of a config string, in tokens

\* A config string is a sequence of tokens: the two delimiters, a blank, and the
\* letters a and b (a variable name inside a placeholder, plain text outside).
Tokens == {"{{", "}}", " ", "a", "b"}
Strings(n) == UNION { [1..k -> Tokens] : k \in 0..n }

\* config values: strings, and one value that is not a string (the integer 7)
Str(text) == [str |-> TRUE, text |-> text]
NotStr == [str |-> FALSE, text |-> <<"7">>]
ConfigValues == { Str(t) : t \in Strings(MaxLen) } \cup {NotStr}

\* str.strip
RECURSIVE strip(_)
strip(t) ==
    IF t = << >> THEN t
    ELSE IF Head(t) = " " THEN strip(Tail(t))
    ELSE IF t[Len(t)] = " " THEN strip(SubSeq(t, 1, Len(t) - 1))
    ELSE t

\* pattern.fullmatch(t) for the pattern \{\{(.*?)\}\}: the whole of t is one match
fullmatch(t) == Len(t) >= 2 /\ t[1] = "{{" /\ t[Len(t)] = "}}"

\* group(1) of that match
group1(t) == SubSeq(t, 2, Len(t) - 1)

\* the end of the match of the pattern that starts at position p, 0 if there is none:
\* the lazy .*? stops at the first closing delimiter
MatchEnd(t, p) ==
    IF t[p] = "{{" /\ \E j \in (p + 1)..Len(t) : t[j] = "}}"
      THEN CHOOSE j \in (p + 1)..Len(t) : t[j] = "}}" /\ \A i \in (p + 1)..(j - 1) : t[i] # "}}"
      ELSE 0

\* pattern.search(t)
search(t) == \E p \in 1..Len(t) : MatchEnd(t, p) # 0

\* the parts of an interpolated expression
Lit(tok) == [lit |-> TRUE, text |-> <<tok>>, default |-> "n/a"]
Get(key, default) == [lit |-> FALSE, text |-> key, default |-> default]

\* faulty variant: the lookup inside the interpolation has no default
replacer_NoDefault(t, p) == Get(strip(SubSeq(t, p + 1, MatchEnd(t, p) - 1)), "none")

\* replacer(match): {variables.get('<name>', '')}
replacer(t, p) == Get(strip(SubSeq(t, p + 1, MatchEnd(t, p) - 1)), "''")

\* pattern.sub(replacer, t) from position p on: leftmost matches, one after the other
RECURSIVE sub(_, _)
sub(t, p) ==
    IF p > Len(t) THEN << >>
    ELSE IF MatchEnd(t, p) # 0 THEN <<replacer(t, p)>> \o sub(t, MatchEnd(t, p) + 1)
    ELSE <<Lit(t[p])>> \o sub(t, p + 1)

\* the expressions _resolve_template returns
Lookup(key) == [kind |-> "get", key |-> key, parts |-> << >>]
FString(parts) == [kind |-> "fstring", key |-> << >>, parts |-> parts]
Repr(value) == [kind |-> "repr", key |-> value.text, parts |-> << >>]

_resolve_template(value) ==
    IF ~value.str THEN Repr(value)
    ELSE IF fullmatch(strip(value.text)) THEN Lookup(strip(group1(strip(value.text))))
    ELSE IF search(value.text) THEN FString(sub(value.text, 1))
    ELSE Repr(value)

\* run-time values, and the contents of the shared mapping: a is unset, a number or a text
Value(type, text) == [type |-> type, text |-> text]
None == Value("NoneType", <<"None">>)
Stores == { [a |-> v] : v \in {None, Value("int", <<"7">>), Value("str", <<"b">>)} }
Unset(store) == store.a = None

\* variables.get(key) and variables.get(key, '')
get(store, key, default) ==
    IF key = <<"a">> /\ ~Unset(store) THEN store.a
    ELSE IF default = "''" THEN Value("str", << >>)
    ELSE None

\* the text of a part of an f-string: a doubled brace stands for one brace, a
\* replacement field for str() of its value
Rendered(store, part) ==
    IF part.lit
      THEN (IF part.text = <<"{{">> THEN <<"{">> ELSE IF part.text = <<"}}">> THEN <<"}">> ELSE part.text)
      ELSE get(store, part.text, part.default).text

RECURSIVE Concat(_, _)
Concat(store, parts) ==
    IF parts = << >> THEN << >> ELSE Rendered(store, Head(parts)) \o Concat(store, Tail(parts))

\* the value of the emitted expression when the call is evaluated
eval(expr, value, store) ==
    CASE expr.kind = "get"     -> get(store, expr.key, "none")
      [] expr.kind = "fstring" -> Value("str", Concat(store, expr.parts))
      [] expr.kind = "repr"    -> Value(IF value.str THEN "str" ELSE "int", expr.key)

InitResolve ==
    /\ workflow \in {[trigger |-> ManualTrigger, actions |-> << >>]}
    /\ program = NoProgram
    /\ pc = "document"
    /\ exit_code = -1
    /\ rpc = "idle"
    /\ idx = 0
    /\ attempt = 0
    /\ action_success = FALSE
    /\ variables = EmptyMapping
    /\ credentials = "empty"
    /\ success = FALSE
    /\ trigger_data = NoPayload
    /\ invocations = 0
    /\ error_logged = FALSE
    /\ log = << >>
    /\ NoLoop
    /\ NoListener

\* one call of the resolver in a process; a process resolves a value or emits a call
Resolve ==
    /\ resolved = << >> /\ call = << >>
    /\ \E value \in ConfigValues :
        resolved' = <<[value |-> value, expr |-> _resolve_template(value)]>>
    /\ UNCHANGED <<evaluated, call>>
    /\ UNCHANGED outside_tpl

\* the emitted call evaluates the expression
Evaluate ==
    /\ resolved # << >>
    /\ evaluated = << >>
    /\ \E store \in Stores :
        evaluated' = <<[store |-> store, result |-> eval(resolved[1].expr, resolved[1].value, store)]>>
    /\ UNCHANGED <<resolved, call>>
    /\ UNCHANGED outside_tpl

\* the keys of an action's config whose string values get_function_call puts in the call
StringParams(p) ==
    CASE p = "api_call"      -> {"url", "method"}
      [] p = "file_process"  -> {"filepath", "operation", "content"}
      [] p = "log_message"   -> {"message", "level"}
      [] p = "send_email"    -> {"to", "subject", "message"}
      [] p = "send_whatsapp" -> {"to", "message"}
      [] p = "web_scrape"    -> {"url", "selector"}

Omitted == [kind |-> "omitted", key |-> << >>, parts |-> << >>]

\* get_function_call(config) of plugin p: the argument emitted for config[k] = value
get_function_call(p, k, value) ==
    CASE p \in {"api_call", "file_process", "log_message"} -> Repr(value)
      [] p \in {"send_email", "send_whatsapp"} -> _resolve_template(value)
      [] p = "web_scrape" ->
            IF k = "selector" /\ value.text = << >> THEN Omitted ELSE _resolve_template(value)

MaxArg == 4          \* length of a config string of an action, in tokens
Arguments == { Str(t) : t \in Strings(MaxArg) }

\* _generate_action_calls asks the plugin of an action for its call
GenerateCall ==
    /\ call = << >> /\ resolved = << >>
    /\ \E p \in action_plugins :
        \E k \in StringParams(p), value \in Arguments :
            call' = <<[plugin |-> p, param |-> k, value |-> value, expr |-> get_function_call(p, k, value)]>>
    /\ UNCHANGED <<resolved, evaluated>>
    /\ UNCHANGED outside_tpl

NextResolve == Resolve \/ Evaluate \/ GenerateCall

SpecResolve == InitResolve /\ [][NextResolve]_vars

\* ==================================================== conditions and loops
\* Documents whose actions declare `condition` and `loop`. An action's condition is
\* the name it tests ("y": the variable y is set; "item": the loop variable), its
\* loop the name of the list it runs over ("x": "item in x"); "absent" when the key
\* is not in the action. _generate_action_calls reads type, config and on_error of
\* an action and no other key.
FlowRetry == [kind |-> "dict", hasCount |-> TRUE, count |-> MaxCount, hasDelay |-> TRUE, delay |-> 10]
FlowActions ==
    { [type |-> "log_message", retry |-> NoRetry, condition |-> c, loop |-> l] :
        c \in {"absent", "y"}, l \in {"absent", "x"} }
    \cup { [type |-> "log_message", retry |-> NoRetry, condition |-> "item", loop |-> "x"],
           [type |-> "log_message", retry |-> FlowRetry, condition |-> "y", loop |-> "absent"],
           [type |-> "bogus_action", retry |-> NoRetry, condition |-> "absent", loop |-> "absent"] }
FlowWorkflows == [trigger : {ManualTrigger}, actions : UNION { [1..n -> FlowActions] : n \in 1..MaxActions }]

InitFlow ==
    /\ workflow \in FlowWorkflows
    /\ program = NoProgram
    /\ pc = "document"
    /\ exit_code = -1
    /\ rpc = "idle"
    /\ idx = 0
    /\ attempt = 0
    /\ action_success = FALSE
    /\ variables = EmptyMapping
    /\ credentials = "empty"
    /\ success = FALSE
    /\ trigger_data = NoPayload
    /\ invocations = 0
    /\ error_logged = FALSE
    /\ log = << >>
    /\ NoLoop
    /\ NoListener

\* the program of such a document, run once by the manual harness
NextFlow ==
    \/ GenerateCode
    \/ ManualMain
    \/ SkipAction
    \/ BareCall
    \/ BareReturn
    \/ BareRaise
    \/ RetryEnter
    \/ AttemptCall
    \/ AttemptReturn
    \/ AttemptRaise
    \/ RetryDone
    \/ RetryExhausted
    \/ ReturnTrue
    \/ ManualExit

SpecFlow == InitFlow /\ [][NextFlow]_vars

\* ================================================================== claims
\* positions of the log that hold event e of action i
Positions(e, i) == { p \in DOMAIN log : log[p].ev = e /\ log[p].idx = i }
Count(e, i) == Cardinality(Positions(e, i))
\* calls of action i entered up to position p of the log
CallsUpTo(i, p) == Cardinality({ q \in Positions("call", i) : q <= p })
RunOver == rpc \in {"returned", "idle"}
\* the actions of the document for which a retry wrapper is emitted
RetryGoverned == { i \in DOMAIN workflow.actions :
                     get_action_plugin(workflow.actions[i].type) /\ HasRetryWrapper(workflow.actions[i]) }
DocCount(i) == retry_count(workflow.actions[i].retry)
DocDelay(i) == retry_delay(workflow.actions[i].retry)

Unmatched == { i \in DOMAIN workflow.actions : ~get_action_plugin(workflow.actions[i].type) }
Generated == pc \notin {"document", "gen_error"}

RetrySteps == { i \in DOMAIN program.steps : program.steps[i].kind = "retry" }

C7_Log ==
    \A i \in RetrySteps :
        /\ \A p \in Positions("ok", i) :
            /\ \A q \in DOMAIN log : (q > p) => log[q].idx > i
            /\ p < Len(log) => log[p + 1].idx = i + 1
            /\ p = Len(log) =>
                \/ rpc = "afterloop" /\ action_success
                \/ ~RunOver /\ idx = i + 1
                \/ RunOver /\ success /\ i = Len(program.steps)
            /\ Count("fatal", i) = 0
        /\ \A p \in Positions("sleep", i) :
            /\ log[p - 1] = Ev("fail", i, 0)
            /\ CallsUpTo(i, p) < DocCount(i)
            /\ log[p].d = DocDelay(i)
        /\ \A p \in Positions("fail", i) :
            CallsUpTo(i, p) < DocCount(i) => (p < Len(log) /\ log[p + 1].ev = "sleep")

C7_Merge ==
    (rpc = "attempt" /\ rpc' = "afterloop") =>
        /\ action_success'
        /\ \E ret \in Returns :
            \A k \in Keys :
                variables'[k] = IF ret.isDict /\ ret.m[k] # Absent THEN ret.m[k] ELSE variables[k]

C8_AtLeastOneAttempt ==
    \A i \in RetryGoverned : Count("fatal", i) > 0 => Count("call", i) >= 1

\* C9: generation succeeds for every document and emits the harness of its
\* trigger type (manual when the trigger or its type is missing, unknown for any
\* other value); the unknown harness logs an error and exits non-zero without
\* invoking run_workflow.
C9_HarnessSelection ==
    pc # "document" =>
        /\ program.ok
        /\ program.harness.kind \in HarnessKinds
        /\ \A k \in {"manual", "file", "schedule", "webhook"} :
            program.harness.kind = k <=>
                \/ workflow.trigger.has /\ workflow.trigger.type = k
                \/ k = "manual" /\ (~workflow.trigger.has \/ workflow.trigger.type = Missing)
        /\ program.harness.kind = "unknown" =>
            /\ invocations = 0
            /\ pc = "exited" => error_logged /\ exit_code = 1

\* C10: in both schedule loops the fire time that follows a fire scheduled for
\* time T is the cron successor of T, whatever the time at which the invocation
\* returned; no scheduled fire time between two consecutive fires is left out.
C10_NextFromPriorFire ==
    \A k \in DOMAIN fires : k > 1 => fires[k].T = get_next(fires[k - 1].T)

\* invocations of the schedule loop that ended in failure: the run returned False or the callback raised
FailedRuns == { k \in DOMAIN fires : fires[k].out \in {"failed", "raised"} }

\* the loop is left only by the plugin's stop flag
C11_LoopAlive == spc = "returned" => impl = "plugin" /\ stopped

\* a step that enters the except branch goes to the cooldown, the cooldown lasts
\* Cooldown seconds, and the only way out of it is the top of the loop
C11_CaughtThenCooldown ==
    /\ errors' # errors => errors' = errors + 1 /\ spc' = "cooldown"
    /\ spc = "cooldown" /\ spc' # spc => spc' = "top" /\ now' = now + Cooldown
    /\ spc' = "cooldown" /\ spc # spc' => errors' = errors + 1

C12_WithinPeriod ==
    impl = "plugin" =>
        /\ spc = "sleeping" => next_run_time <= now + CronPeriod
        /\ \A k \in DOMAIN fires : fires[k].at >= fires[k].T
        \* until the first callback returns base_time is the time start() was entered
        /\ Len(fires) = 1 /\ fires[1].out = "running" => fires[1].at <= base_time + CronPeriod

\* C12: the plugin's loop fires within one period of becoming ready, and once stop() has
\* been called start() returns, whichever position the loop is in (sleeping, invoking
\* the callback, in the error cooldown).
C12_StopsCleanly ==
    /\ [](C12_WithinPeriod)
    /\ (impl = "plugin" /\ stopped) ~> (spc = "returned")

\* the loop fired, met an error, was stopped and start() has returned
C12_Witness ==
    /\ impl = "plugin"
    /\ spc = "returned"
    /\ stopped
    /\ Len(fires) >= 1
    /\ fires[1].at = fires[1].T
    /\ errors >= 1

\* the payload the webhook contract gives for a body: the parsed JSON, or the raw wrapper
WebhookPayload(b) == [data |-> IF b = JsonBody THEN [form |-> "json", of |-> b] ELSE RawWrapper(b)]

\* a handled POST was served as the contract says
ServedAsContract(r) ==
    IF r.request.path = ConfiguredPath
      THEN /\ r.replies = <<Ok200>>
           /\ Len(r.calls) = 1
           /\ r.calls[1].replies_before = <<Ok200>>
           /\ r.calls[1].payload = WebhookPayload(r.request.body)
      ELSE /\ r.replies = <<NotFound404>>
           /\ r.calls = << >>

\* C13: every POST to the configured path is answered 200 'OK' before the workflow
\* function is called, and the function is called exactly once with the body parsed as
\* JSON or, when parsing fails, with the raw wrapper; a POST to another path gets 404
\* and no call.
C13_EveryPostServed ==
    \A k \in DOMAIN served : served[k].request.kind = "POST" => ServedAsContract(served[k])

\* the calls the file contract gives for a create event
FileCalls(e) ==
    IF e.is_directory
      THEN << >>
      ELSE << [payload |-> [event_type |-> "created", src_path |-> e.src_path], replies_before |-> << >>] >>

C14_EachEvent ==
    \A k \in DOMAIN served :
        served[k].request.kind = "created" => served[k].calls = FileCalls(served[k].request)

\* the handler of a create event hands back to a watcher that still holds its watch
C14_KeepsWatching ==
    listener.kind = "file" /\ tpc = "handling" /\ tpc' # tpc => tpc' = "listening" /\ resource' = "held"

C15_ReleasedOnEveryExit == tpc = "exited" => resource # "held"

\* the mapping an invocation starts from: its own payload, or {}
Seed(data) == IF data.none THEN EmptyMapping ELSE data.m
\* the keys actions write (the payload keys are event_type, src_path and data)
WrittenKeys == {"x", "y"}

\* whatever an action wrote that is visible was written by an action of this invocation
C16_OwnWrites ==
    invocations > 0 =>
        /\ \A k \in Keys \ WrittenKeys : variables[k] = Seed(trigger_data)[k]
        /\ \A k \in WrittenKeys :
            variables[k] # Absent => \E p \in DOMAIN log : log[p].ev = "ok"

\* an invocation starts from its seed alone
C16_FreshAtEntry == invocations' = invocations + 1 => variables' = Seed(trigger_data')

Failures == { p \in DOMAIN log : log[p].ev \in {"raise", "fatal"} }

\* whatever the outcome of the load, the run is at its first action
C17_Entry ==
    invocations' = invocations + 1 =>
        /\ credentials' \in CredentialOutcomes
        /\ rpc' = "step" /\ idx' = 1 /\ log' = << >>

\* on the empty mapping a run fails only by an action that raised or exhausted its
\* attempts, and a run that completed has acted on every action of the document
C17_OnEmpty ==
    (invocations > 0 /\ credentials = "empty") =>
        /\ (rpc = "returned" /\ ~success) => (Failures # {} /\ Len(log) \in Failures)
        /\ (rpc = "returned" /\ success) =>
            /\ Failures = {}
            /\ \A i \in DOMAIN program.steps : \E p \in DOMAIN log : log[p].idx = i /\ log[p].ev \in {"ok", "skip"}
        /\ \A p \in DOMAIN log : p < Len(log) => log[p + 1].idx \in {log[p].idx, log[p].idx + 1}

C18_Deterministic == \A i, j \in DOMAIN outputs : outputs[i] = outputs[j]

Range(q) == { q[i] : i \in DOMAIN q }

\* the plugin classes no action of the document names
NotRequired == PluginTypes \ { workflow.actions[i].type : i \in DOMAIN workflow.actions }
\* what the required plugins, the trigger and the retry wrappers account for
RequiredImports == UNION { required_imports(p) : p \in _get_required_plugins(workflow) }
TriggerLines == { ImportLines[k] : k \in {2, 5, 6, 7, 12} }

\* C19: a plugin that no action of the document names contributes nothing: not its
\* function definition, not its import statements (unless a required plugin or the
\* trigger needs the same line), not its modules in the allowed-import set (unless a
\* required plugin, the trigger or the baseline needs the same module).
C19_OnlyRequiredPlugins ==
    \A k \in DOMAIN outputs : \A b \in NotRequired :
        /\ function_name(b) \notin Range(outputs[k].definitions)
        /\ \A imp \in required_imports(b) :
            /\ imp \in Range(outputs[k].imports) => imp \in RequiredImports \cup TriggerLines
            /\ module_of(imp) \in Range(outputs[k].allowed) =>
                 module_of(imp) \in Baseline \cup { module_of(x) : x \in RequiredImports \cup TriggerLines }

C21_GuardIsMembership ==
    \A k \in DOMAIN attempts :
        LET a == attempts[k]
        IN  IF a.name \in ALLOWED_MODULES(workflow)
              THEN a.result.outcome = "imports"
              ELSE a.result.outcome = "ImportError" /\ a.result.named = a.name

\* the positions of the placeholders of a string: an opening delimiter, one variable
\* name with blanks around it at most, and a closing delimiter
IsName(t) == strip(t) \in {<<"a">>, <<"b">>}
PlaceholderAt(t, p) == MatchEnd(t, p) # 0 /\ IsName(SubSeq(t, p + 1, MatchEnd(t, p) - 1))
Placeholders(t) == { p \in 1..Len(t) : PlaceholderAt(t, p) }
NameAt(t, p) == strip(SubSeq(t, p + 1, MatchEnd(t, p) - 1))
Delimiters(t) == { p \in 1..Len(t) : t[p] \in {"{{", "}}"} }

\* the string is one placeholder for a and nothing else but blanks around it
ExactlyPlaceholder(value) ==
    /\ value.str
    /\ Cardinality(Delimiters(value.text)) = 2
    /\ fullmatch(strip(value.text))
    /\ strip(group1(strip(value.text))) = <<"a">>

\* the string is one placeholder for a with other text before or after it
EmbeddedPlaceholder(value) ==
    /\ value.str
    /\ Cardinality(Delimiters(value.text)) = 2
    /\ Cardinality(Placeholders(value.text)) = 1
    /\ ~fullmatch(strip(value.text))
    /\ NameAt(value.text, CHOOSE p \in Placeholders(value.text) : TRUE) = <<"a">>

Lookups(expr) == { k \in DOMAIN expr.parts : ~expr.parts[k].lit }

C22_WitnessEmbedded ==
    /\ resolved # << >> /\ evaluated # << >>
    /\ Unset(evaluated[1].store)
    /\ EmbeddedPlaceholder(resolved[1].value)
    /\ resolved[1].value = Str(<<"b", " ", "{{", "a", "}}", "b">>)

\* C23: only a string that consists of exactly one placeholder becomes a direct lookup;
\* a string with two or more placeholders becomes an interpolated expression in which
\* each placeholder is replaced by the lookup of its own name with the empty default.
C23_SeveralPlaceholders ==
    \A k \in DOMAIN resolved :
        LET value == resolved[k].value
            expr == resolved[k].expr
            P == Placeholders(value.text)
        IN  value.str =>
            /\ (expr.kind = "get" /\ P # {}) => Cardinality(P) = 1
            /\ Cardinality(P) >= 2 =>
                /\ expr.kind = "fstring"
                /\ Cardinality(Lookups(expr)) = Cardinality(P)
                /\ \A p \in P : \E i \in Lookups(expr) : expr.parts[i] = Get(NameAt(value.text, p), "''")

\* C24: for every registered action plugin, a placeholder in a string value of the
\* action's config is resolved by the template resolver in the emitted call, which so
\* reads the variable from the shared mapping and never passes the placeholder text.
C24_PlaceholdersResolved ==
    \A c \in DOMAIN call :
        Placeholders(call[c].value.text) # {} =>
            /\ call[c].expr = _resolve_template(call[c].value)
            /\ call[c].expr.kind \in {"get", "fstring"}

\* the action the run is executing a call of
Calling == Running /\ rpc \in {"call", "attempt"}
Declared(i, key) == workflow.actions[i][key] # "absent"
\* the list stored under a name: the texts "1" and "2" stand for lists of one and of
\* two elements, an unset name for no list
Elements(m, name) == IF m[name] = Absent THEN 0 ELSE IF m[name] = "1" THEN 1 ELSE 2
\* the iterations of action i that have completed
Iterations(i) == Count("ok", i)
\* the condition of action i, against the mapping and the element bound in the iteration
Holds(i, m) ==
    IF workflow.actions[i].condition = "item"
      THEN Iterations(i) < Elements(m, workflow.actions[i].loop)
      ELSE m[workflow.actions[i].condition] # Absent

\* C25: an action that declares a condition is executed if and only if the condition
\* is true of the variable mapping when the action is reached: no call of it is made
\* while the condition is false; an action without condition is executed always.
C25_ConditionGuard ==
    /\ (Calling /\ Declared(idx, "condition") /\ ~Declared(idx, "loop")) => Holds(idx, variables)
    /\ \A i \in DOMAIN workflow.actions :
        (Running /\ i < idx /\ get_action_plugin(workflow.actions[i].type) /\ ~Declared(i, "condition")
            /\ ~Declared(i, "loop")) => Count("call", i) >= 1

\* C26: an action that declares loop "item in x" is called once per element of the
\* list stored under x, in order: every call of it is made for an element of the list
\* that is still to come, and none when x is unset.
C26_LoopWrapper ==
    (Calling /\ Declared(idx, "loop")) => Iterations(idx) < Elements(variables, workflow.actions[idx].loop)

\* C27: for an action that declares loop and condition, the condition is evaluated in
\* each iteration with the element bound in it: every call of the action is made in
\* an iteration, for an element of which the condition holds.
C27_ConditionPerIteration ==
    (Calling /\ Declared(idx, "loop") /\ Declared(idx, "condition")) =>
        /\ Iterations(idx) < Elements(variables, workflow.actions[idx].loop)
        /\ Holds(idx, variables)

\* the mapping m overridden by the value a call returned
Overridden(m, ret) == [k \in Keys |-> IF ret.isDict /\ ret.m[k] # Absent THEN ret.m[k] ELSE m[k]]
CallReturns == rpc \in {"call", "attempt"} /\ Len(log') = Len(log) + 1 /\ log'[Len(log')].ev = "ok"
CallFails == rpc \in {"call", "attempt"} /\ ~CallReturns

C28_Step ==
    /\ CallReturns =>
        \E ret \in Returns : variables' = Overridden(variables, ret)
    /\ CallFails => variables' = variables
    /\ (rpc \notin {"call", "attempt", "idle", "returned"}) => variables' = variables

HasSleepCall ==
    \/ \E i \in DOMAIN generate_code(workflow).steps : generate_code(workflow).steps[i].kind = "retry"
    \/ generate_code(workflow).harness.kind \in {"file", "schedule"}
TimeLine == Imp("import", "time", "")

C29_NamesAccepted ==
    \A k \in DOMAIN EmittedImports :
        _secure_import(Components(module_of(EmittedImports[k])), 0, ALLOWED_MODULES(workflow)).outcome = "imports"
C29_TimeForSleep ==
    HasSleepCall => (TimeLine \in Range(EmittedImports) /\ <<"time">> \in ALLOWED_MODULES(workflow))
C29_NoneRejected ==
    \A k \in DOMAIN import_block : import_block[k].result.outcome = "imports"

\* C29: every module named by a statement of the emitted import block is accepted by
\* the emitted guard; a program with a sleep call imports `time` and has it in its
\* allowed set; and the program never rejects one of its own imports when it runs them.
C29_OwnImportsPass == C29_NamesAccepted /\ C29_TimeForSleep /\ C29_NoneRejected

\* C30: once stop() of the schedule plugin has returned, on_trigger is not invoked
\* again, wherever the loop of start() is when stop() is called.
C30_NoInvocationAfterStop ==
    [][(impl = "plugin" /\ stopped) => Len(fires') = Len(fires)]_vars
====
